---- MODULE Spec2Model ----
(***************************************************************************)
(* Gateway session engine of fluxer-rs (src/src/client/mod.rs).            *)
(*                                                                         *)
(* Client::start is the outer reconnect loop, Client::run_session one      *)
(* connection attempt: endpoint choice, connect, identify or resume, then  *)
(* the read loop.  The heartbeat monitor is the task spawned on hello.     *)
(* Time is abstracted: a sleep or a timer tick is a step that may happen   *)
(* at any moment.  The peer is unconstrained: it may send any frame.       *)
(*                                                                         *)
(* Around the engine: Context::join_voice and Context::leave_voice with    *)
(* the voice fragments the read loop records (VoiceSpec), the tasks        *)
(* spawned for dispatch events and the user callbacks they run             *)
(* (CallbackSpec), and the playback commands of examples/voice.rs over     *)
(* FluxerVoiceConnection::play_music (PlaybackSpec).  These start from a   *)
(* session that is in its read loop.                                       *)
(*                                                                         *)
(* WireSpec follows one connection's socket await by await: run_session,   *)
(* the forwarder task and the heartbeat tasks, which share the write half  *)
(* behind one mutex; WireFairSpec adds the scheduling of those tasks.       *)
(*                                                                         *)
(* FragmentSpec is the read loop on VOICE_SERVER_UPDATE frames alone,      *)
(* ReconnectSpec the voice calls of one guild across reconnects, and       *)
(* ResetSpec the reconnect loop with its backoff.                          *)
(***************************************************************************)
EXTENDS Integers, FiniteSets, Sequences, TLC

\* ------------------------------------------------------------------ bounds
MaxSeq == 1
MaxMonitors == 1
MaxJoins == 2                  \* join_voice calls followed in a run
MaxPending == 1                \* dispatch_event tasks spawned and not yet run
MaxCallbacks == 1              \* user callbacks followed while they run
MaxPlays == 2                  \* play_music calls followed in a run
MaxQueue == 1                  \* capacity of the outbound channel (64 in the code)
MaxHellos == 2                 \* hello frames followed on one connection's socket
MaxFrames == 2                 \* VOICE_SERVER_UPDATE frames of a peer held to nothing

\* --------------------------------------------------------------- constants
NoSeq == -1                    \* Option<u64>::None of last_seq / payload["s"]
NoStr == "none"                \* Option<String>::None
InitialBackoff == 1
BackoffCap == 60

SessionIds == {"a", "b"}
DEFAULT_GATEWAY_URL == "wss://gateway.fluxer.app/?v=1&encoding=json"
GatewayQuery == "/?v=1&encoding=json"
UrlStems == {"wss://r1", "wss://rest"}  \* URLs that do not end in '/'
ReadyUrls == {"wss://r1/"}              \* d.resume_gateway_url of the READY events
RestUrls == {"wss://rest"}              \* what Http::get_gateway answers
RestErr == "err"                        \* Http::get_gateway gave Err
NotCalled == "not called"               \* Http::get_gateway was not called

\* url.trim_end_matches('/')
TrimEndSlash(url) ==
  IF \E h \in UrlStems : url = h \o "/"
    THEN CHOOSE h \in UrlStems : url = h \o "/"
    ELSE url

\* format!("{}/?v=1&encoding=json", url.trim_end_matches('/'))
WithQuery(url) == TrimEndSlash(url) \o GatewayQuery

ResumeUrls == {WithQuery(url) : url \in ReadyUrls}      \* the values resume_url takes

FatalCloseCodes == {4004, 4010, 4011, 4012}
CloseCodes == {0, 1000, 1006} \cup FatalCloseCodes   \* 0: close frame without a code
EventTypes == {"READY", "OTHER"}
SeqValues == 0..MaxSeq
MaybeSeq == {NoSeq} \cup SeqValues
MaybeSid == {NoStr} \cup SessionIds
MaybeUrl == {NoStr} \cup ResumeUrls
MaybeReadyUrl == {NoStr} \cup ReadyUrls

VARIABLES
  pc,            \* position of start(): connecting, reading, backoff, jitter, returned
  result,        \* value start() returned: none, ok, err_ws, err_json
  session_id,    \* start()'s session_id
  resume_url,    \* start()'s resume_url
  last_seq,      \* start()'s last_seq
  backoff,       \* start()'s backoff, in seconds
  ack_shared,    \* the current connection's Arc<Mutex<bool>>, shared with its monitors
  monitors,      \* the current connection's running heartbeat monitors, by position
  orphans,       \* earlier connections whose monitors still run: their ack and monitors
  wrote,         \* the frame the step just taken wrote to the current connection's socket
  rest_call,     \* what Http::get_gateway answered in the step just taken
  \* history of the run, not program state
  zombie,        \* a monitor of the current connection stopped on a missing ack
  ended_by,      \* how the latest attempt ended, until the next one is connected
  close_code,    \* code of the close frame that ended it
  ready_sid,     \* session_id of the latest READY carrying one, since the last fresh reset
  seen_seq,      \* s of the latest frame carrying one, since the last fresh reset
  conn_incr,     \* every s read on this connection exceeded the one before it
  conn_max,      \* largest s read on this connection, while conn_incr
  conn_nseq,     \* number of frames carrying s read on this connection (saturating)
  steady,        \* the latest connection has read a dispatch (where that is followed)
  \* the Context of the current connection and the calls made on it
  voice_states,  \* Context::voice_states: guild id -> VoiceState
  live_rooms,    \* Context::live_rooms: guild id -> the room join_voice recorded
  tx_open,       \* the forwarder task still holds gateway_rx: gateway_tx.send succeeds
  pending,       \* voice fragments whose dispatch_event task is spawned and has not run
  heard,         \* history: the VOICE_SERVER_UPDATE frames read, in wire order
  calls,         \* the join_voice / leave_voice call each caller is in, by position
  returned,      \* the call that returned in the step just taken, and its result
  \* history of the voice calls, not program state
  joins,         \* guild of every join_voice call made, in call order
  sent,          \* the join_voice calls whose op-4 frame reached the peer
  open_rooms,    \* the rooms connected and not closed, by the call that opened them
  \* the dispatch_event tasks of the current connection
  callbacks,     \* the events whose user callback has been invoked and has not returned
  dropped,       \* history: an event was dropped because its payload did not decode
  \* the Handler of examples/voice.rs and the playback tasks of play_music
  playback,      \* Handler::playback: the AbortHandle kept, by task
  voice_conn,    \* Handler::voice: the guild of the FluxerVoiceConnection kept
  voice_guard,   \* the command holding the lock of Handler::voice
  commands,      \* the on_message calls running a command, by position
  streams,       \* the tasks play_music spawned, in order: running, aborted, stopped
  \* the socket of one connection and the tasks that write to it
  write_guard,   \* the task holding the guard of `write`, the Arc<Mutex<..>> of the sink
  tasks,         \* each writing task: where it is and the frame it is about to write
  channel,       \* the frames sent on gateway_tx and not yet received by the forwarder
  seq_shared,    \* the connection's Arc<Mutex<Option<u64>>>
  ack_hb,        \* the connection's Arc<Mutex<bool>>, as the tasks of this part see it
  put,           \* the frame the step just taken put on the socket, and the task that did
  overdue        \* history: a heartbeat written a full interval ago has had no ack since

engine == <<pc, result, session_id, resume_url, last_seq, backoff>>
shared == <<ack_shared, monitors, orphans>>
history == <<zombie, ended_by, close_code, ready_sid, seen_seq, conn_incr, conn_max, conn_nseq,
            steady>>
gateway == <<engine, shared, wrote, rest_call, history>>
context == <<voice_states, live_rooms, tx_open, calls, returned, joins, sent, open_rooms>>
voice == <<context, pending, heard>>
dispatcher == <<callbacks, dropped>>
player == <<playback, voice_conn, voice_guard, commands, streams>>
wire == <<write_guard, tasks, channel, seq_shared, ack_hb, put, overdue>>
others == <<voice, dispatcher, player, wire>>
vars == <<gateway, others>>

NoMonitors == [waiting |-> 0, sending |-> 0]     \* tasks at the tick, at the write
NoFrame == [op |-> 255, session_id |-> NoStr, seq |-> NoSeq, url |-> NoStr]
Heartbeat(d) == [op |-> 1, session_id |-> NoStr, seq |-> d, url |-> NoStr]
Pong == [op |-> 256, session_id |-> NoStr, seq |-> NoSeq, url |-> NoStr]

Min(a, b) == IF a <= b THEN a ELSE b

\* ------------------------------------------------------------ pure helpers

\* a slip: the cap is applied to the value before it is doubled
NextBackoff_LateCap(b) == IF b >= BackoffCap THEN BackoffCap ELSE b * 2

\* (backoff * 2).min(Duration::from_secs(60))
NextBackoff(b) == Min(b * 2, BackoffCap)

\* run_session: what `self.http.get_gateway().await` can give, where it is called
GetGateway(sid) == IF sid # NoStr THEN {NotCalled} ELSE RestUrls \cup {RestErr}

\* run_session: the endpoint of an attempt; rest is what get_gateway gave
GatewayUrl_DefaultFirst(sid, rurl, rest) ==
  IF sid # NoStr
    THEN DEFAULT_GATEWAY_URL
    ELSE (IF rest \in RestUrls THEN WithQuery(rest) ELSE DEFAULT_GATEWAY_URL)

GatewayUrl(sid, rurl, rest) ==
  IF sid # NoStr
    THEN (IF rurl # NoStr THEN rurl ELSE DEFAULT_GATEWAY_URL)
    ELSE (IF rest \in RestUrls THEN WithQuery(rest) ELSE DEFAULT_GATEWAY_URL)

\* a slip: resume whenever a session id is held, whatever the cursor
HandshakeFrame_SidOnly(sid, seq, url) ==
  IF sid # NoStr
    THEN [op |-> 6, session_id |-> sid, seq |-> seq, url |-> url]
    ELSE [op |-> 2, session_id |-> NoStr, seq |-> NoSeq, url |-> url]

\* run_session: `if let (Some(sid), Some(seq)) = (session_id, *last_seq)` resume (op 6),
\* else identify (op 2); url is the endpoint the frame goes to
HandshakeFrame(sid, seq, url) ==
  IF sid # NoStr /\ seq # NoSeq
    THEN [op |-> 6, session_id |-> sid, seq |-> seq, url |-> url]
    ELSE [op |-> 2, session_id |-> NoStr, seq |-> NoSeq, url |-> url]

\* a slip: only 4004 is taken as fatal
CloseOutcome_Only4004(code) ==
  IF code = 4004 THEN "done" ELSE "closed"

\* read loop: the result of run_session on a close frame with this code
CloseOutcome(code) ==
  IF code \in FatalCloseCodes THEN "done" ELSE "closed"

\* a slip: the cursor only ever grows
SeqUpdate_Max(cur, s) == IF s # NoSeq /\ s > cur THEN s ELSE cur

\* read loop: `if let Some(s) = payload["s"].as_u64() { *last_seq = Some(s); ... }`
SeqUpdate(cur, s) == IF s # NoSeq THEN s ELSE cur

\* a slip: the session id of the first READY is kept
ReadySessionId_KeepFirst(cur, t, sid) ==
  IF t = "READY" /\ sid # NoStr /\ cur = NoStr THEN sid ELSE cur

\* read loop, op 0: session_id after a dispatch of type t whose d.session_id is sid
ReadySessionId(cur, t, sid) ==
  IF t = "READY" /\ sid # NoStr THEN sid ELSE cur

\* read loop, op 0: resume_url after a dispatch of type t whose d.resume_gateway_url is rurl
ReadyResumeUrl(cur, t, rurl) ==
  IF t = "READY" /\ rurl # NoStr THEN WithQuery(rurl) ELSE cur

\* read loop, op 7: `return Ok(LoopControl::Reconnect { resume: true })`
ReconnectOutcome == "reconnect_resume"

\* a slip: an invalid session is always taken as resumable
InvalidSessionOutcome_Resume(resumable) == "reconnect_resume"

\* read loop, op 9: `payload["d"].as_bool().unwrap_or(false)`
InvalidSessionOutcome(resumable) ==
  IF resumable THEN "reconnect_resume" ELSE "reconnect_fresh"

\* read loop: `serde_json::from_str(text)?` on a text frame that is not JSON
BadJsonOutcome == "err_json"

\* read loop: `msg_result?` on a read error; run_session: `connect_async(..).await?`
TransportErrorOutcome == "err_ws"

\* read loop: the stream ended (`read.next()` gave None)
StreamEndOutcome == "closed"

\* a slip: ConnectionClosed falls through to `Err(e) => return Err(e)`
StartPc_ClosedReturns(res) ==
  CASE res = "done" -> "returned"
    [] res = "reconnect_fresh" -> "jitter"
    [] res = "reconnect_resume" -> "backoff"
    [] OTHER -> "returned"

\* start(): where the outer loop goes on each result of run_session
StartPc(res) ==
  CASE res = "done" -> "returned"
    [] res = "reconnect_fresh" -> "jitter"
    [] res = "reconnect_resume" -> "backoff"
    [] res = "closed" -> "backoff"
    [] OTHER -> "returned"

\* start(): the value returned to the caller, "none" while start() goes on
StartResult(res) ==
  CASE res = "done" -> "ok"
    [] res \in {"reconnect_fresh", "reconnect_resume", "closed"} -> "none"
    [] OTHER -> res

\* a slip: every reconnect outcome discards
Discards_AnyReconnect(res) == res \in {"reconnect_fresh", "reconnect_resume"}

\* start(): whether the result discards session_id, resume_url and last_seq
Discards(res) == res = "reconnect_fresh"

\* ----------------------------------------------------------------- state

Running(ms) == ms.waiting + ms.sending

RECURSIVE RunningIn(_)
RunningIn(os) == IF os = <<>> THEN 0 ELSE Running(os[1].monitors) + RunningIn(Tail(os))

\* run_session returns and drops its handles: the monitors it spawned keep theirs and
\* keep running
Orphaned(os, ack, ms) ==
  IF Running(ms) > 0 THEN Append(os, [ack |-> ack, monitors |-> ms]) ELSE os

\* ------------------------------------------------------ voice: the data

Guilds == {"g1", "g2"}
Joiners == {"c1"}                   \* the tasks that call join_voice
Leavers == {"c2"}                   \* the tasks that call leave_voice
Callers == Joiners \cup Leavers
Attempts == 1..MaxJoins             \* a join_voice call is named by its rank in joins

EmptyToken == 0                     \* String::new(); k > 0: the token issued for call k
NoSession == 0                      \* session_id None (a fragment's: ""); k > 0: of call k
NoHost == 0                         \* the endpoint has nothing after its scheme
NoRoom == 0                         \* live_rooms has no room for the guild

\* an endpoint string is what it starts with and the rest of it
Schemes == {"", "wss://"}
NoEndpoint == [scheme |-> "", host |-> NoHost]                      \* String::new()
Endpoints(k) == {NoEndpoint} \cup {[scheme |-> s, host |-> k] : s \in Schemes}

\* model::voice::VoiceState, and the absence of the guild's key
NoEntry == [present |-> FALSE, token |-> EmptyToken, endpoint |-> NoEndpoint,
            session_id |-> NoSession]
NewEntry == [NoEntry EXCEPT !.present = TRUE]                        \* or_insert_with

\* a slip: only wss:// counts as a scheme
NormalizeEndpoint_WssOnly(endpoint) ==
  IF endpoint.scheme = "wss://"
    THEN endpoint
    ELSE [endpoint EXCEPT !.scheme = "wss://" \o @]

\* dispatch_event, VOICE_SERVER_UPDATE: the endpoint it stores
NormalizeEndpoint(endpoint) ==
  IF endpoint.scheme \in {"wss://", "https://"}
    THEN endpoint
    ELSE [endpoint EXCEPT !.scheme = "wss://" \o @]

\* dispatch_event, VOICE_STATE_UPDATE: the map after the fragment
RecordState(states, guild_id, sess) ==
  IF guild_id # "" /\ sess # NoSession
    THEN LET entry == IF states[guild_id].present THEN states[guild_id] ELSE NewEntry
         IN  [states EXCEPT ![guild_id] = [entry EXCEPT !.session_id = sess]]
    ELSE states

\* dispatch_event, VOICE_SERVER_UPDATE: the map after the fragment
RecordServer(states, guild_id, token, endpoint) ==
  IF guild_id # "" /\ token # EmptyToken /\ endpoint # NoEndpoint
    THEN LET entry == IF states[guild_id].present THEN states[guild_id] ELSE NewEntry
         IN  [states EXCEPT ![guild_id] = [entry EXCEPT !.token = token,
                                            !.endpoint = NormalizeEndpoint(endpoint)]]
    ELSE states

\* the fragments the peer can send in answer to join_voice call k
StateFragments(k, guild_id) ==
  {[t |-> "VOICE_STATE_UPDATE", guild_id |-> guild_id, token |-> EmptyToken,
    endpoint |-> NoEndpoint, session_id |-> sess] : sess \in {NoSession, k}}
ServerFragments(k, guild_id) ==
  {[t |-> "VOICE_SERVER_UPDATE", guild_id |-> guild_id, token |-> k,
    endpoint |-> endpoint, session_id |-> NoSession] : endpoint \in Endpoints(k)}
  \cup {[t |-> "VOICE_SERVER_UPDATE", guild_id |-> guild_id, token |-> EmptyToken,
          endpoint |-> [scheme |-> "", host |-> k], session_id |-> NoSession]}

\* the VOICE_SERVER_UPDATE frames of a peer that is held to nothing: any guild id (""
\* when the field is missing), any token, an endpoint that starts with any of Prefixes
Prefixes == {"", "wss://", "https://", "ws://", "http://"}
Tokens == {EmptyToken, 1, 2}
RawEndpoints == {NoEndpoint} \cup {[scheme |-> p, host |-> 1] : p \in Prefixes}
ServerUpdates ==
  {[t |-> "VOICE_SERVER_UPDATE", guild_id |-> g, token |-> token, endpoint |-> endpoint,
    session_id |-> NoSession] : g \in {"", "g1"}, token \in Tokens, endpoint \in RawEndpoints}

\* join_voice: the entry is complete
Ready_EntryPresent(vs) == vs.present

Ready(vs) == vs.present /\ vs.token # EmptyToken /\ vs.endpoint # NoEndpoint

\* join_voice: states.get(guild_id)
Entry_AnyReady(states, guild_id) ==
  IF \E g \in Guilds : Ready(states[g])
    THEN states[CHOOSE g \in Guilds : Ready(states[g])]
    ELSE states[guild_id]

Entry(states, guild_id) == states[guild_id]

\* join_voice: one turn of the readiness loop
PollOutcome_NoDeadline(vs, expired) == IF Ready(vs) THEN "ready" ELSE "sleep"

PollOutcome(vs, expired) ==
  IF Ready(vs) THEN "ready" ELSE IF expired THEN "timeout" ELSE "sleep"

\* HashMap::remove(guild_id) on voice_states and on live_rooms
Removed_All(states, guild_id) == [g \in Guilds |-> NoEntry]

Removed(states, guild_id) == [states EXCEPT ![guild_id] = NoEntry]

Taken(rooms, guild_id) == [rooms EXCEPT ![guild_id] = NoRoom]

\* a caller that is in no call
Idle == [op |-> "none", guild_id |-> "", pc |-> "idle", attempt |-> 0, vs |-> NoEntry,
         room |-> NoRoom, expired |-> FALSE, prior |-> {}, found |-> FALSE]

\* no call returned in the step just taken
NoReturn == [op |-> "none", guild_id |-> "", attempt |-> 0, result |-> "none",
             found |-> FALSE]

\* the call returns res
Returned(call, res) ==
  [op |-> call.op, guild_id |-> call.guild_id, attempt |-> call.attempt,
   result |-> res, found |-> call.found]

\* the state of a Context just built by run_session
VoiceIdle ==
  /\ voice_states = [g \in Guilds |-> NoEntry]
  /\ live_rooms = [g \in Guilds |-> NoRoom]
  /\ tx_open = TRUE
  /\ pending = {}
  /\ heard = <<>>
  /\ calls = [c \in Callers |-> Idle]
  /\ returned = NoReturn
  /\ joins = <<>>
  /\ sent = {}
  /\ open_rooms = {}

\* ------------------------------------------- dispatch_event tasks: the data

\* a dispatch frame as dispatch_event sees it: its type, and whether its payload
\* deserializes into the type's struct
Events == {[t |-> t, decodes |-> decodes] : t \in EventTypes, decodes \in BOOLEAN}

\* the dispatch! macro: the callback is invoked on Ok(v) only
Invokes_Always(event) == TRUE

Invokes(event) == event.decodes

\* run_session, op 0: where the loop is once it has handed the event over; tokio::spawn
\* returns at once and the JoinHandle is dropped
AfterDispatch_Awaited == "dispatching"

AfterDispatch == "reading"

DispatcherIdle ==
  /\ callbacks = {}
  /\ dropped = FALSE

\* ------------------------------- examples/voice.rs and play_music: the data

Players == {"m1", "m2"}             \* on_message calls that run a voice command
NoHandle == 0                       \* Handler::playback is None
NoConn == ""                        \* Handler::voice is None
NoHolder == ""                      \* the lock of Handler::voice is free
NoCommand == [cmd |-> "none", pc |-> "idle", handle |-> NoHandle]

\* AbortHandle::abort on the handle taken out of Handler::playback
Aborted_Not(ss, handle) == ss

Aborted(ss, handle) ==
  IF handle # NoHandle /\ ss[handle].state = "running"
    THEN [ss EXCEPT ![handle].state = "aborted"]
    ELSE ss

PlayerIdle ==
  /\ playback = NoHandle
  /\ voice_conn = NoConn
  /\ voice_guard = NoHolder
  /\ commands = [m \in Players |-> NoCommand]
  /\ streams = <<>>

\* ------------------------------------- the socket of a connection: the data

\* the tasks that hold a clone of `write`
Loop == <<"run_session", 0>>                 \* handshake, then the read loop
Forwarder == <<"forwarder", 0>>              \* the task draining gateway_rx
Monitor(i) == <<"monitor", i>>               \* the heartbeat task of the i-th hello
Nobody == <<"", 0>>
Monitors == {Monitor(i) : i \in 1..MaxHellos}
Writers == {Loop, Forwarder} \cup Monitors

\* the op-4 frame of join_voice and leave_voice
Signal == [op |-> 4, session_id |-> NoStr, seq |-> NoSeq, url |-> NoStr]

\* a task: pc is where it is suspended; frame is what it writes next; late (history):
\* the heartbeats it has written since run_session returned, up to 2; unacked (history):
\* it has written a heartbeat and no heartbeat-ack has been read since
Task(at, frame) == [pc |-> at, frame |-> frame, unacked |-> FALSE, late |-> 0]

NoPut == [frame |-> NoFrame, by |-> Nobody]
Written(w, frame) == [frame |-> frame, by |-> w]

\* a slip: lock() returns whoever holds the guard
Acquires_Unfair(holder) == TRUE

\* write.lock().await returns once nobody holds the guard
Acquires(holder) == holder = Nobody

\* a slip: the guard is dropped before the send
Locked_Dropped(w) == Nobody

\* the holder of the guard once lock() has returned to w, until w's send has returned
Locked(w) == w

\* a slip: the result of the handshake's send is dropped, as a pong's is
AfterWrite_HandshakeUnchecked(w, frame, ok) ==
  CASE w = Loop -> "reading"
    [] w = Forwarder -> IF ok THEN "receiving" ELSE "ended"
    [] OTHER -> IF ok THEN "waiting" ELSE "stopped"

\* where a task goes once its send has returned
AfterWrite(w, frame, ok) ==
  CASE w = Loop -> IF frame.op \in {2, 6} /\ ~ok THEN "ended" ELSE "reading"
    [] w = Forwarder -> IF ok THEN "receiving" ELSE "ended"
    [] OTHER -> IF ok THEN "waiting" ELSE "stopped"

\* run_session has made the cells and spawned the forwarder, and is about to write the
\* identify frame of a first attempt
WireIdle ==
  /\ write_guard = Nobody
  /\ tasks = [w \in Writers |->
                CASE w = Loop ->
                       Task("locking", HandshakeFrame(NoStr, NoSeq, DEFAULT_GATEWAY_URL))
                  [] w = Forwarder -> Task("receiving", NoFrame)
                  [] OTHER -> Task("unborn", NoFrame)]
  /\ channel = <<>>
  /\ seq_shared = NoSeq
  /\ ack_hb = TRUE
  /\ put = NoPut
  /\ overdue = FALSE

\* everything but the engine, before the first event of a connection
OthersIdle == VoiceIdle /\ DispatcherIdle /\ PlayerIdle /\ WireIdle

Init ==
  /\ OthersIdle
  /\ pc = "connecting"
  /\ result = "none"
  /\ session_id = NoStr
  /\ resume_url = NoStr
  /\ last_seq = NoSeq
  /\ backoff = InitialBackoff
  /\ ack_shared = TRUE
  /\ monitors = NoMonitors
  /\ orphans = <<>>
  /\ zombie = FALSE
  /\ wrote = NoFrame
  /\ rest_call = NotCalled
  /\ ended_by = "none"
  /\ close_code = 0
  /\ ready_sid = NoStr
  /\ seen_seq = NoSeq
  /\ conn_incr = TRUE
  /\ conn_max = NoSeq
  /\ conn_nseq = 0
  /\ steady = FALSE

\* what the peer has sent: a frame carrying sequence number s (NoSeq: none), of event
\* type t with session id sid; fresh: the frame is a non-resumable invalid-session.
\* ends: the frame ends the connection.
Observe(s, t, sid, fresh, ends) ==
  LET incr == IF s # NoSeq THEN (conn_incr /\ s > conn_max) ELSE conn_incr IN
  /\ ready_sid' = IF fresh THEN NoStr
                  ELSE IF t = "READY" /\ sid # NoStr THEN sid ELSE ready_sid
  /\ seen_seq' = IF fresh THEN NoSeq ELSE IF s # NoSeq THEN s ELSE seen_seq
  /\ conn_incr' = (incr /\ ~ends)
  /\ conn_max' = IF incr /\ ~ends THEN (IF s # NoSeq THEN s ELSE conn_max) ELSE NoSeq
  /\ conn_nseq' = IF incr /\ ~ends
                    THEN (IF s # NoSeq THEN Min(conn_nseq + 1, 2) ELSE conn_nseq)
                    ELSE 0

\* run_session returned `res` with the session state (sid, rurl, seq): the match in
\* start(), up to its sleep or its return
EndSession(res, why, code, sid, rurl, seq) ==
  /\ pc' = StartPc(res)
  /\ result' = StartResult(res)
  /\ session_id' = IF Discards(res) THEN NoStr ELSE sid
  /\ resume_url' = IF Discards(res) THEN NoStr ELSE rurl
  /\ last_seq' = IF Discards(res) THEN NoSeq ELSE seq
  /\ ended_by' = why
  /\ close_code' = code
  /\ orphans' = Orphaned(orphans, ack_shared, monitors)
  /\ monitors' = NoMonitors
  /\ ack_shared' = TRUE
  /\ zombie' = FALSE
  /\ wrote' = NoFrame
  /\ UNCHANGED <<backoff, steady>>

\* ------------------------------------------------------- start(): the sleeps

\* start(): the exponential backoff sleep is over; double the backoff and `continue`
WakeBackoff ==
  /\ pc = "backoff"
  /\ pc' = "connecting"
  /\ backoff' = NextBackoff(backoff)
  /\ wrote' = NoFrame
  /\ UNCHANGED <<result, session_id, resume_url, last_seq, shared, history>>
  /\ rest_call' = NotCalled
  /\ UNCHANGED others

\* start(): the jitter sleep of a fresh reconnect is over; reset the backoff and loop
WakeJitter ==
  /\ pc = "jitter"
  /\ pc' = "connecting"
  /\ backoff' = InitialBackoff
  /\ wrote' = NoFrame
  /\ UNCHANGED <<result, session_id, resume_url, last_seq, shared, history>>
  /\ rest_call' = NotCalled
  /\ UNCHANGED others

\* ----------------------------------------- run_session: connect and handshake

\* run_session builds its Context: a new channel and two new, empty maps
NewContext ==
  /\ voice_states' = [g \in Guilds |-> NoEntry]
  /\ live_rooms' = [g \in Guilds |-> NoRoom]
  /\ tx_open' = TRUE

\* run_session up to the read loop: pick the endpoint, connect_async, create the
\* shared cells and the Context, write identify or resume.  sock is what the transport
\* does.
Connect ==
  /\ pc = "connecting"
  /\ \E rest \in GetGateway(session_id), sock \in {"ok", "connect_err", "send_err"} :
       LET failed == sock # "ok" IN
       /\ rest_call' = rest
       /\ pc' = IF failed THEN StartPc(TransportErrorOutcome) ELSE "reading"
       /\ result' = IF failed THEN StartResult(TransportErrorOutcome) ELSE result
       /\ ended_by' = CASE sock = "connect_err" -> "connect_error"
                        [] sock = "send_err" -> "handshake_error"
                        [] OTHER -> "none"
       /\ close_code' = 0
       /\ wrote' = IF failed THEN NoFrame
                   ELSE HandshakeFrame(session_id, last_seq,
                                       GatewayUrl(session_id, resume_url, rest))
       /\ IF sock = "connect_err"
            THEN UNCHANGED <<voice_states, live_rooms, tx_open>>
            ELSE NewContext
  /\ ack_shared' = TRUE
  /\ monitors' = NoMonitors
  /\ zombie' = FALSE
  /\ conn_incr' = TRUE
  /\ conn_max' = NoSeq
  /\ conn_nseq' = 0
  /\ steady' = FALSE
  /\ returned' = NoReturn
  /\ UNCHANGED <<session_id, resume_url, last_seq, backoff, orphans, ready_sid, seen_seq>>
  /\ UNCHANGED <<pending, heard, calls, joins, sent, open_rooms, dispatcher, player, wire>>

\* ------------------------------------------------- run_session: the read loop

\* a close frame with this code (0: no code)
RecvClose(code) ==
  /\ pc = "reading"
  /\ EndSession(CloseOutcome(code), "close", code, session_id, resume_url, last_seq)
  /\ Observe(NoSeq, "", NoStr, FALSE, TRUE)
  /\ rest_call' = NotCalled
  /\ UNCHANGED others

\* the inbound stream ended
RecvEnd ==
  /\ pc = "reading"
  /\ EndSession(StreamEndOutcome, "stream_end", 0, session_id, resume_url, last_seq)
  /\ Observe(NoSeq, "", NoStr, FALSE, TRUE)
  /\ rest_call' = NotCalled
  /\ UNCHANGED others

\* a read error of the transport
RecvError ==
  /\ pc = "reading"
  /\ EndSession(TransportErrorOutcome, "read_error", 0, session_id, resume_url, last_seq)
  /\ Observe(NoSeq, "", NoStr, FALSE, TRUE)
  /\ rest_call' = NotCalled
  /\ UNCHANGED others

\* a text frame that is not JSON
RecvBadJson ==
  /\ pc = "reading"
  /\ EndSession(BadJsonOutcome, "bad_json", 0, session_id, resume_url, last_seq)
  /\ Observe(NoSeq, "", NoStr, FALSE, TRUE)
  /\ rest_call' = NotCalled
  /\ UNCHANGED others

\* a transport ping: a pong is written (a failed write is ignored), `continue`
RecvPing ==
  /\ pc = "reading"
  /\ \E ok \in BOOLEAN : wrote' = IF ok THEN Pong ELSE NoFrame
  /\ UNCHANGED <<engine, shared, history>>
  /\ rest_call' = NotCalled
  /\ UNCHANGED others

\* the part of a read-loop iteration every JSON text frame goes through when the loop
\* goes on: the sequence cursor takes the frame's s
KeepReading(s) ==
  /\ last_seq' = SeqUpdate(last_seq, s)
  /\ UNCHANGED <<pc, result, backoff, orphans, zombie, ended_by, close_code, steady>>

\* op 10 hello: spawn a heartbeat monitor
RecvHello(s) ==
  /\ pc = "reading"
  /\ Running(monitors) + RunningIn(orphans) < MaxMonitors
  /\ monitors' = [monitors EXCEPT !.waiting = @ + 1]
  /\ KeepReading(s)
  /\ Observe(s, "", NoStr, FALSE, FALSE)
  /\ wrote' = NoFrame
  /\ UNCHANGED <<session_id, resume_url, ack_shared>>
  /\ rest_call' = NotCalled
  /\ UNCHANGED others

\* op 11 heartbeat-ack
RecvHeartbeatAck(s) ==
  /\ pc = "reading"
  /\ ack_shared' = TRUE
  /\ KeepReading(s)
  /\ Observe(s, "", NoStr, FALSE, FALSE)
  /\ wrote' = NoFrame
  /\ UNCHANGED <<session_id, resume_url, monitors>>
  /\ rest_call' = NotCalled
  /\ UNCHANGED others

\* op 0 dispatch of event type t; d.session_id is sid and d.resume_gateway_url is rurl
Captures(s, t, sid, rurl) ==
  /\ pc = "reading"
  /\ pc' = AfterDispatch
  /\ session_id' = ReadySessionId(session_id, t, sid)
  /\ resume_url' = ReadyResumeUrl(resume_url, t, rurl)
  /\ last_seq' = SeqUpdate(last_seq, s)
  /\ Observe(s, t, sid, FALSE, FALSE)
  /\ wrote' = NoFrame
  /\ rest_call' = NotCalled
  /\ UNCHANGED <<result, backoff, orphans, zombie, ended_by, close_code, ack_shared, monitors>>

\* op 0, the dispatch_event task it spawns not followed
RecvDispatch(s, t, sid, rurl) ==
  /\ Captures(s, t, sid, rurl)
  /\ UNCHANGED steady
  /\ UNCHANGED others

\* op 0, followed as what brings the connection to its steady state
RecvSteady(s, t, sid, rurl) ==
  /\ Captures(s, t, sid, rurl)
  /\ steady' = TRUE
  /\ UNCHANGED others

\* op 0, the dispatch_event task it spawns followed; decodes: the payload deserializes
RecvEvent(s, t, sid, rurl, decodes) ==
  /\ Captures(s, t, sid, rurl)
  /\ Cardinality(pending) < MaxPending
  /\ [t |-> t, decodes |-> decodes] \notin pending
  /\ pending' = pending \cup {[t |-> t, decodes |-> decodes]}
  /\ UNCHANGED steady
  /\ UNCHANGED <<context, heard, dispatcher, player, wire>>

\* op 1: the server asks for a heartbeat; it carries the cursor just updated (a failed
\* write is ignored)
RecvHeartbeatRequest(s) ==
  /\ pc = "reading"
  /\ \E ok \in BOOLEAN :
       wrote' = IF ok THEN Heartbeat(SeqUpdate(last_seq, s)) ELSE NoFrame
  /\ KeepReading(s)
  /\ Observe(s, "", NoStr, FALSE, FALSE)
  /\ UNCHANGED <<session_id, resume_url, ack_shared, monitors>>
  /\ rest_call' = NotCalled
  /\ UNCHANGED others

\* any other op: ignored
RecvUnknownOp(s) ==
  /\ pc = "reading"
  /\ KeepReading(s)
  /\ Observe(s, "", NoStr, FALSE, FALSE)
  /\ wrote' = NoFrame
  /\ UNCHANGED <<session_id, resume_url, ack_shared, monitors>>
  /\ rest_call' = NotCalled
  /\ UNCHANGED others

\* op 7 reconnect
RecvReconnect(s) ==
  /\ pc = "reading"
  /\ EndSession(ReconnectOutcome, "op7", 0, session_id, resume_url, SeqUpdate(last_seq, s))
  /\ Observe(s, "", NoStr, FALSE, TRUE)
  /\ rest_call' = NotCalled
  /\ UNCHANGED others

\* op 9 invalid-session; resumable is `payload["d"].as_bool().unwrap_or(false)`
RecvInvalidSession(s, resumable) ==
  /\ pc = "reading"
  /\ EndSession(InvalidSessionOutcome(resumable),
                IF resumable THEN "op9_resumable" ELSE "op9_fresh", 0,
                session_id, resume_url, SeqUpdate(last_seq, s))
  /\ Observe(s, "", NoStr, ~resumable, TRUE)
  /\ rest_call' = NotCalled
  /\ UNCHANGED others

\* ------------------------------------------------------- heartbeat monitor

\* the monitor's zombie check: `if !*ack { break; }`
Zombie(ack) == ~ack

\* monitor loop, first half, on the cells (ack, ms) of its connection: the jitter sleep
\* or the interval tick is over; zombie check, else ack = false and go on to the write
TickCells(ack, ms) ==
  IF Zombie(ack)
    THEN [ack |-> ack, monitors |-> [ms EXCEPT !.waiting = @ - 1]]
    ELSE [ack |-> FALSE,
          monitors |-> [waiting |-> ms.waiting - 1, sending |-> ms.sending + 1]]

\* monitor loop, second half: the heartbeat write returned; `is_err()` breaks the loop
SendCells(ack, ms, ok) ==
  IF ok
    THEN [ack |-> ack,
          monitors |-> [waiting |-> ms.waiting + 1, sending |-> ms.sending - 1]]
    ELSE [ack |-> ack, monitors |-> [ms EXCEPT !.sending = @ - 1]]

\* orphans with entry i replaced by cells, dropped when none of its monitors is left
WithOrphan(os, i, cells) ==
  IF Running(cells.monitors) = 0
    THEN SubSeq(os, 1, i - 1) \o SubSeq(os, i + 1, Len(os))
    ELSE [os EXCEPT ![i] = cells]

\* a monitor of the connection being read ticks
MonitorTick ==
  /\ pc = "reading"
  /\ monitors.waiting > 0
  /\ LET cells == TickCells(ack_shared, monitors) IN
       /\ ack_shared' = cells.ack
       /\ monitors' = cells.monitors
       /\ zombie' = (zombie \/ Zombie(ack_shared))
  /\ wrote' = NoFrame
  /\ UNCHANGED <<engine, orphans, ended_by, close_code, ready_sid, seen_seq,
                 conn_incr, conn_max, conn_nseq, steady>>
  /\ rest_call' = NotCalled
  /\ UNCHANGED others

\* a monitor of the connection being read writes its heartbeat, carrying the cursor
MonitorSend ==
  /\ pc = "reading"
  /\ monitors.sending > 0
  /\ \E ok \in BOOLEAN :
       /\ monitors' = SendCells(ack_shared, monitors, ok).monitors
       /\ wrote' = IF ok THEN Heartbeat(last_seq) ELSE NoFrame
  /\ UNCHANGED <<engine, ack_shared, orphans, history>>
  /\ rest_call' = NotCalled
  /\ UNCHANGED others

\* a monitor of an earlier connection ticks
OrphanTick(i) ==
  /\ i \in 1..Len(orphans)
  /\ orphans[i].monitors.waiting > 0
  /\ orphans' = WithOrphan(orphans, i, TickCells(orphans[i].ack, orphans[i].monitors))
  /\ wrote' = NoFrame
  /\ UNCHANGED <<engine, ack_shared, monitors, history>>
  /\ rest_call' = NotCalled
  /\ UNCHANGED others

\* a monitor of an earlier connection writes its heartbeat to that connection's socket
OrphanSend(i) ==
  /\ i \in 1..Len(orphans)
  /\ orphans[i].monitors.sending > 0
  /\ \E ok \in BOOLEAN :
       orphans' = WithOrphan(orphans, i,
                             SendCells(orphans[i].ack, orphans[i].monitors, ok))
  /\ wrote' = NoFrame
  /\ UNCHANGED <<engine, ack_shared, monitors, history>>
  /\ rest_call' = NotCalled
  /\ UNCHANGED others

\* ------------------------------------------------------------ specification

\* --------------------------------------------- Context::join_voice, by await

\* no caller is still in join_voice call k
Finished(k) == \A c \in Callers : calls[c].pc = "idle" \/ calls[c].attempt # k

\* the map locks a call holds while it is suspended where it is: the guard of
\* `if let Some(room) = self.live_rooms.lock().await.remove(guild_id)` lives to the end
\* of the if-let, over `room.close().await`; every other guard is dropped before an await
Held(call) == IF call.op = "leave" /\ call.pc = "closing" THEN {"live_rooms"} ELSE {}

\* nobody holds the live_rooms lock: leave_voice keeps it while it closes the room
LiveRoomsFree == \A c \in Callers : calls[c].pc # "closing"

\* caller c goes on in its call, which is now at `call`
Goes(c, call) == calls' = [calls EXCEPT ![c] = call] /\ returned' = NoReturn

\* caller c's call returns res
Returns(c, res) == calls' = [calls EXCEPT ![c] = Idle] /\ returned' = Returned(calls[c], res)

\* join_voice is called and removes the guild's entry
JoinBegin(c, guild_id) ==
  /\ calls[c].pc = "idle"
  /\ Len(joins) < MaxJoins
  /\ voice_states' = Removed(voice_states, guild_id)
  /\ joins' = Append(joins, guild_id)
  /\ Goes(c, [Idle EXCEPT !.op = "join", !.guild_id = guild_id, !.pc = "sending",
                           !.attempt = Len(joins) + 1,
                           !.prior = {k \in 1..Len(joins) :
                                        joins[k] = guild_id /\ Finished(k)}])
  /\ UNCHANGED <<live_rooms, tx_open, pending, heard, sent, open_rooms, gateway, dispatcher, player, wire>>

\* gateway_tx.send of the op-4 frame; the forwarder's write of it is taken with the
\* send: a failed write ends the forwarder, and every later send fails
JoinSend(c) ==
  /\ calls[c].op = "join" /\ calls[c].pc = "sending"
  /\ IF tx_open
       THEN \E written \in BOOLEAN :
              /\ tx_open' = written
              /\ sent' = IF written THEN sent \cup {calls[c].attempt} ELSE sent
              /\ Goes(c, [calls[c] EXCEPT !.pc = "polling"])
       ELSE /\ Returns(c, "err_send")
            /\ UNCHANGED <<tx_open, sent>>
  /\ UNCHANGED <<voice_states, live_rooms, pending, heard, joins, open_rooms, gateway, dispatcher, player, wire>>

\* Instant::now() >= deadline becomes true
TimerExpires(c) ==
  /\ calls[c].op = "join" /\ calls[c].pc = "polling" /\ ~calls[c].expired
  /\ Goes(c, [calls[c] EXCEPT !.expired = TRUE])
  /\ UNCHANGED <<voice_states, live_rooms, tx_open, pending, heard, joins, sent, open_rooms, gateway, dispatcher, player, wire>>

\* a turn of the readiness loop that does not go back to sleep
JoinPoll(c) ==
  /\ calls[c].op = "join" /\ calls[c].pc = "polling"
  /\ LET vs == Entry(voice_states, calls[c].guild_id)
         outcome == PollOutcome(vs, calls[c].expired)
     IN  /\ outcome # "sleep"
         /\ IF outcome = "ready"
              THEN Goes(c, [calls[c] EXCEPT !.pc = "opening", !.vs = vs])
              ELSE Returns(c, "err_timeout")
  /\ UNCHANGED <<voice_states, live_rooms, tx_open, pending, heard, joins, sent, open_rooms, gateway, dispatcher, player, wire>>

\* FluxerVoiceConnection::connect(endpoint, token) returns
JoinConnect(c) ==
  /\ calls[c].op = "join" /\ calls[c].pc = "opening"
  /\ \E ok \in BOOLEAN :
       IF ok THEN /\ open_rooms' = open_rooms \cup {calls[c].attempt}
                  /\ Goes(c, [calls[c] EXCEPT !.pc = "recording", !.vs = NoEntry,
                                               !.room = calls[c].attempt])
             ELSE /\ Returns(c, "err_connect")
                  /\ UNCHANGED open_rooms
  /\ UNCHANGED <<voice_states, live_rooms, tx_open, pending, heard, joins, sent, gateway, dispatcher, player, wire>>

\* live_rooms.insert(guild_id, room), and Ok(conn)
JoinRecord(c) ==
  /\ calls[c].op = "join" /\ calls[c].pc = "recording"
  /\ LiveRoomsFree
  /\ live_rooms' = [live_rooms EXCEPT ![calls[c].guild_id] = calls[c].room]
  /\ Returns(c, "ok")
  /\ UNCHANGED <<voice_states, tx_open, pending, heard, joins, sent, open_rooms, gateway, dispatcher, player, wire>>

\* -------------------------------------------- Context::leave_voice, by await

\* leave_voice is called and takes the guild's room out of live_rooms; prior (history):
\* the join_voice calls for the guild that were made before this call
LeaveBegin(c, guild_id) ==
  /\ calls[c].pc = "idle"
  /\ LiveRoomsFree
  /\ live_rooms' = Taken(live_rooms, guild_id)
  /\ Goes(c, [Idle EXCEPT !.op = "leave", !.guild_id = guild_id,
                           !.room = live_rooms[guild_id],
                           !.prior = {k \in 1..Len(joins) : joins[k] = guild_id},
                           !.found = (live_rooms[guild_id] # NoRoom
                                      \/ voice_states[guild_id].present),
                           !.pc = IF live_rooms[guild_id] # NoRoom THEN "closing"
                                                                   ELSE "sending"])
  /\ UNCHANGED <<voice_states, tx_open, pending, heard, joins, sent, open_rooms, gateway, dispatcher, player, wire>>

\* room.close() returns; its result is dropped
LeaveClose(c) ==
  /\ calls[c].op = "leave" /\ calls[c].pc = "closing"
  /\ open_rooms' = open_rooms \ {calls[c].room}
  /\ Goes(c, [calls[c] EXCEPT !.pc = "sending", !.room = NoRoom])
  /\ UNCHANGED <<voice_states, live_rooms, tx_open, pending, heard, joins, sent, gateway, dispatcher, player, wire>>

\* gateway_tx.send of the op-4 frame with a null channel
LeaveSend(c) ==
  /\ calls[c].op = "leave" /\ calls[c].pc = "sending"
  /\ IF tx_open
       THEN \E written \in BOOLEAN :
              /\ tx_open' = written
              /\ Goes(c, [calls[c] EXCEPT !.pc = "clearing"])
       ELSE /\ Returns(c, "err_send")
            /\ UNCHANGED tx_open
  /\ UNCHANGED <<voice_states, live_rooms, pending, heard, joins, sent, open_rooms, gateway, dispatcher, player, wire>>

\* voice_states.remove(guild_id), and Ok(())
LeaveClear(c) ==
  /\ calls[c].op = "leave" /\ calls[c].pc = "clearing"
  /\ voice_states' = Removed(voice_states, calls[c].guild_id)
  /\ Returns(c, "ok")
  /\ UNCHANGED <<live_rooms, tx_open, pending, heard, joins, sent, open_rooms, gateway, dispatcher, player, wire>>

\* ------------------------------------------ the voice fragments of the peer

\* the read loop reads a dispatch frame without s and spawns dispatch_event on it
Spawn(fragment) ==
  /\ pc = "reading"
  /\ Cardinality(pending) < MaxPending
  /\ fragment \notin pending
  /\ pending' = pending \cup {fragment}
  /\ returned' = NoReturn
  /\ UNCHANGED <<voice_states, live_rooms, tx_open, calls, heard, joins, sent, open_rooms, gateway, dispatcher, player, wire>>

RecvVoiceState(k) ==
  /\ k \in sent
  /\ \E fragment \in StateFragments(k, joins[k]) : Spawn(fragment)

RecvVoiceServer(k) ==
  /\ k \in sent
  /\ \E fragment \in ServerFragments(k, joins[k]) : Spawn(fragment)

\* a spawned dispatch_event task runs on its voice fragment
DispatchVoice(fragment) ==
  /\ fragment \in pending
  /\ pending' = pending \ {fragment}
  /\ voice_states' =
       IF fragment.t = "VOICE_STATE_UPDATE"
         THEN RecordState(voice_states, fragment.guild_id, fragment.session_id)
         ELSE RecordServer(voice_states, fragment.guild_id, fragment.token,
                           fragment.endpoint)
  /\ returned' = NoReturn
  /\ UNCHANGED <<live_rooms, tx_open, calls, heard, joins, sent, open_rooms, gateway, dispatcher, player, wire>>

\* ------------------------------------------- dispatch_event: the callbacks

\* a spawned dispatch_event task runs the dispatch! macro on its event: the callback
\* is invoked, or the failure is logged and the event dropped
RunDispatch(event) ==
  /\ event \in pending
  /\ pending' = pending \ {event}
  /\ IF Invokes(event)
       THEN /\ Cardinality(callbacks) < MaxCallbacks
            /\ event \notin callbacks
            /\ callbacks' = callbacks \cup {event}
            /\ UNCHANGED dropped
       ELSE /\ dropped' = TRUE
            /\ UNCHANGED callbacks
  /\ UNCHANGED <<context, heard, gateway, player, wire>>

\* a user callback returns, and its task ends
CallbackReturns(event) ==
  /\ event \in callbacks
  /\ callbacks' = callbacks \ {event}
  /\ UNCHANGED <<dropped, voice, gateway, player, wire>>

\* ------------------------- examples/voice.rs: the commands of Handler::on_message

\* "play": the lock of Handler::voice is taken and kept; there is a connection
PlayBegin(m) ==
  /\ commands[m].pc = "idle"
  /\ voice_guard = NoHolder
  /\ voice_conn # NoConn
  /\ voice_guard' = m
  /\ commands' = [commands EXCEPT ![m] = [NoCommand EXCEPT !.cmd = "play", !.pc = "abort"]]
  /\ UNCHANGED <<playback, voice_conn, streams, gateway, voice, dispatcher, wire>>

\* "play": the handle kept is taken and aborted
PlayAbort(m) ==
  /\ commands[m].cmd = "play" /\ commands[m].pc = "abort"
  /\ playback' = NoHandle
  /\ streams' = Aborted(streams, playback)
  /\ commands' = [commands EXCEPT ![m].pc = "spawn"]
  /\ UNCHANGED <<voice_conn, voice_guard, gateway, voice, dispatcher, wire>>

\* "play": play_music spawns ffmpeg and the task that streams its output, or fails
PlaySpawn(m) ==
  /\ commands[m].cmd = "play" /\ commands[m].pc = "spawn"
  /\ \E ok \in BOOLEAN :
       IF ok /\ Len(streams) < MaxPlays
         THEN /\ streams' = Append(streams, [guild_id |-> voice_conn, state |-> "running"])
              /\ commands' = [commands EXCEPT ![m].pc = "store",
                                              ![m].handle = Len(streams) + 1]
              /\ UNCHANGED voice_guard
         ELSE /\ commands' = [commands EXCEPT ![m] = NoCommand]
              /\ voice_guard' = NoHolder
              /\ UNCHANGED streams
  /\ UNCHANGED <<playback, voice_conn, gateway, voice, dispatcher, wire>>

\* "play": the new handle is kept; the command ends and the lock is released
PlayStore(m) ==
  /\ commands[m].cmd = "play" /\ commands[m].pc = "store"
  /\ playback' = commands[m].handle
  /\ commands' = [commands EXCEPT ![m] = NoCommand]
  /\ voice_guard' = NoHolder
  /\ UNCHANGED <<voice_conn, streams, gateway, voice, dispatcher, wire>>

\* "stop": the handle kept is taken and aborted
Stop(m) ==
  /\ commands[m].pc = "idle"
  /\ playback # NoHandle
  /\ playback' = NoHandle
  /\ streams' = Aborted(streams, playback)
  /\ UNCHANGED <<voice_conn, voice_guard, commands, gateway, voice, dispatcher, wire>>

\* "leave": the handle kept is taken and aborted
LeaveAbort(m) ==
  /\ commands[m].pc = "idle"
  /\ playback' = NoHandle
  /\ streams' = Aborted(streams, playback)
  /\ commands' = [commands EXCEPT ![m] = [NoCommand EXCEPT !.cmd = "leave", !.pc = "forget"]]
  /\ UNCHANGED <<voice_conn, voice_guard, gateway, voice, dispatcher, wire>>

\* "leave": the connection kept is dropped, under the lock
LeaveForget(m) ==
  /\ commands[m].cmd = "leave" /\ commands[m].pc = "forget"
  /\ voice_guard = NoHolder
  /\ voice_conn' = NoConn
  /\ commands' = [commands EXCEPT ![m] = NoCommand]
  /\ UNCHANGED <<playback, voice_guard, streams, gateway, voice, dispatcher, wire>>

\* "join": join_voice returned the connection of guild_id, which is kept, under the lock
JoinKeep(m, guild_id) ==
  /\ commands[m].pc = "idle"
  /\ voice_guard = NoHolder
  /\ voice_conn # guild_id
  /\ voice_conn' = guild_id
  /\ UNCHANGED <<playback, voice_guard, commands, streams, gateway, voice, dispatcher, wire>>

\* the task of play_music reaches the end of ffmpeg's output, or a stream error
StreamEnds(i) ==
  /\ i \in 1..Len(streams)
  /\ streams[i].state = "running"
  /\ streams' = [streams EXCEPT ![i].state = "stopped"]
  /\ UNCHANGED <<playback, voice_conn, voice_guard, commands, gateway, voice, dispatcher, wire>>

\* the aborted task of play_music reaches its next await and is cancelled there
StreamCancelled(i) ==
  /\ i \in 1..Len(streams)
  /\ streams[i].state = "aborted"
  /\ streams' = [streams EXCEPT ![i].state = "stopped"]
  /\ UNCHANGED <<playback, voice_conn, voice_guard, commands, gateway, voice, dispatcher, wire>>

Next ==
  \/ Connect
  \/ WakeBackoff
  \/ WakeJitter
  \/ \E code \in CloseCodes : RecvClose(code)
  \/ RecvEnd
  \/ RecvError
  \/ RecvBadJson
  \/ RecvPing
  \/ \E s \in MaybeSeq : RecvHello(s)
  \/ \E s \in MaybeSeq : RecvHeartbeatAck(s)
  \/ \E s \in MaybeSeq, sid \in MaybeSid, rurl \in MaybeReadyUrl :
       RecvDispatch(s, "READY", sid, rurl)
  \/ \E s \in MaybeSeq : RecvDispatch(s, "OTHER", NoStr, NoStr)
  \/ \E s \in MaybeSeq : RecvHeartbeatRequest(s)
  \/ \E s \in MaybeSeq : RecvUnknownOp(s)
  \/ \E s \in MaybeSeq : RecvReconnect(s)
  \/ \E s \in MaybeSeq, resumable \in BOOLEAN : RecvInvalidSession(s, resumable)
  \/ MonitorTick
  \/ MonitorSend
  \/ \E i \in 1..MaxMonitors : OrphanTick(i)
  \/ \E i \in 1..MaxMonitors : OrphanSend(i)

Spec == Init /\ [][Next]_vars

\* the steps the program takes on its own: a sleep ends, a connect attempt returns,
\* a timer ticks, a write returns.  What the peer sends, and when, is not assumed.
Fairness ==
  /\ WF_vars(WakeBackoff)
  /\ WF_vars(WakeJitter)
  /\ WF_vars(Connect)
  /\ WF_vars(MonitorTick) /\ WF_vars(MonitorSend)
  /\ \A i \in 1..MaxMonitors : WF_vars(OrphanTick(i)) /\ WF_vars(OrphanSend(i))

FairSpec == Spec /\ Fairness

\* the least that a reconnect needs: the backoff sleep of start() ends
BackoffFairSpec == Spec /\ WF_vars(WakeBackoff)

\* ------------------------------------------- the voice calls of a connection

\* every fragment the peer can come to send
Fragments ==
  UNION {StateFragments(k, g) \cup ServerFragments(k, g) : k \in Attempts, g \in Guilds}

\* the engine once a connection is in its read loop
Connected ==
  /\ pc = "reading"
  /\ result = "none"
  /\ session_id = NoStr
  /\ resume_url = NoStr
  /\ last_seq = NoSeq
  /\ backoff = InitialBackoff
  /\ ack_shared = TRUE
  /\ monitors = NoMonitors
  /\ orphans = <<>>
  /\ zombie = FALSE
  /\ wrote = NoFrame
  /\ rest_call = NotCalled
  /\ ended_by = "none"
  /\ close_code = 0
  /\ ready_sid = NoStr
  /\ seen_seq = NoSeq
  /\ conn_incr = TRUE
  /\ conn_max = NoSeq
  /\ conn_nseq = 0
  /\ steady = FALSE

ConnectedInit == Connected /\ OthersIdle

VoiceNext ==
  \/ \E c \in Joiners, g \in Guilds : JoinBegin(c, g)
  \/ \E c \in Joiners : JoinSend(c)
  \/ \E c \in Joiners : TimerExpires(c)
  \/ \E c \in Joiners : JoinPoll(c)
  \/ \E c \in Joiners : JoinConnect(c)
  \/ \E c \in Joiners : JoinRecord(c)
  \/ \E c \in Leavers, g \in Guilds : LeaveBegin(c, g)
  \/ \E c \in Leavers : LeaveClose(c)
  \/ \E c \in Leavers : LeaveSend(c)
  \/ \E c \in Leavers : LeaveClear(c)
  \/ \E k \in Attempts : RecvVoiceState(k)
  \/ \E k \in Attempts : RecvVoiceServer(k)
  \/ \E fragment \in Fragments : DispatchVoice(fragment)

VoiceSpec == ConnectedInit /\ [][VoiceNext]_vars

\* the timer of the readiness loop runs, and the loop is scheduled
VoiceFairness == \A c \in Joiners : WF_vars(TimerExpires(c)) /\ WF_vars(JoinPoll(c))

VoiceFairSpec == VoiceSpec /\ VoiceFairness

\* -------------------------------- start(): the backoff across connections

\* connections that end as the peer decides, each dispatch followed as reaching the
\* steady state
ResetNext ==
  \/ Connect
  \/ WakeBackoff
  \/ WakeJitter
  \/ \E s \in MaybeSeq, sid \in MaybeSid, rurl \in MaybeReadyUrl :
       RecvSteady(s, "READY", sid, rurl)
  \/ \E s \in MaybeSeq : RecvSteady(s, "OTHER", NoStr, NoStr)
  \/ RecvEnd
  \/ \E s \in MaybeSeq : RecvReconnect(s)
  \/ \E s \in MaybeSeq, resumable \in BOOLEAN : RecvInvalidSession(s, resumable)

ResetSpec == Init /\ [][ResetNext]_vars

\* ------------------------------------- voice calls around one reconnect

\* no call is running and no dispatch_event task is waiting to run: nothing holds the
\* Context of the connection but run_session
Quiet == pending = {} /\ \A c \in Callers : calls[c].pc = "idle"

\* join_voice and leave_voice for one guild, the fragment that completes a join, and
\* one reconnect (op 7, the sleep, the next run_session) taken at a quiet moment
ReconnectNext ==
  \/ \E c \in Joiners : JoinBegin(c, "g1")
  \/ \E c \in Joiners : JoinSend(c)
  \/ \E c \in Joiners : JoinPoll(c)
  \/ \E c \in Joiners : JoinConnect(c)
  \/ \E c \in Joiners : JoinRecord(c)
  \/ \E c \in Leavers : LeaveBegin(c, "g1")
  \/ \E c \in Leavers : LeaveClose(c)
  \/ \E c \in Leavers : LeaveSend(c)
  \/ \E c \in Leavers : LeaveClear(c)
  \/ \E k \in Attempts : RecvVoiceServer(k)
  \/ \E fragment \in Fragments : DispatchVoice(fragment)
  \/ Quiet /\ backoff = InitialBackoff /\ RecvReconnect(NoSeq)
  \/ WakeBackoff
  \/ Connect

ReconnectSpec == ConnectedInit /\ [][ReconnectNext]_vars

\* ------------------------------ VOICE_SERVER_UPDATE frames, in any number

\* the read loop reads a VOICE_SERVER_UPDATE frame and spawns dispatch_event on it
HearServerUpdate(fragment) ==
  /\ pc = "reading"
  /\ Len(heard) < MaxFrames
  /\ fragment \notin pending
  /\ pending' = pending \cup {fragment}
  /\ heard' = Append(heard, fragment)
  /\ returned' = NoReturn
  /\ UNCHANGED <<voice_states, live_rooms, tx_open, calls, joins, sent, open_rooms, gateway, dispatcher, player, wire>>

\* the spawned tasks run in whatever order the runtime schedules them
FragmentNext ==
  \/ \E fragment \in ServerUpdates : HearServerUpdate(fragment)
  \/ \E fragment \in ServerUpdates : DispatchVoice(fragment)

FragmentSpec == ConnectedInit /\ [][FragmentNext]_vars

\* --------------------------------- the dispatch_event tasks of a connection

CallbackNext ==
  \/ \E s \in MaybeSeq, sid \in MaybeSid, decodes \in BOOLEAN :
       RecvEvent(s, "READY", sid, NoStr, decodes)
  \/ \E s \in MaybeSeq, decodes \in BOOLEAN : RecvEvent(s, "OTHER", NoStr, NoStr, decodes)
  \/ \E event \in Events : RunDispatch(event)
  \/ \E event \in Events : CallbackReturns(event)
  \/ RecvHello(NoSeq)
  \/ RecvHeartbeatAck(NoSeq)
  \/ RecvPing
  \/ RecvReconnect(NoSeq)
  \/ \E code \in CloseCodes : RecvClose(code)
  \/ MonitorTick
  \/ MonitorSend

CallbackSpec == ConnectedInit /\ [][CallbackNext]_vars

\* ------------------------------------- the voice commands of examples/voice.rs

PlaybackNext ==
  \/ \E m \in Players : PlayBegin(m)
  \/ \E m \in Players : PlayAbort(m)
  \/ \E m \in Players : PlaySpawn(m)
  \/ \E m \in Players : PlayStore(m)
  \/ \E m \in Players : Stop(m)
  \/ \E m \in Players : LeaveAbort(m)
  \/ \E m \in Players : LeaveForget(m)
  \/ \E m \in Players, g \in Guilds : JoinKeep(m, g)
  \/ \E i \in 1..MaxPlays : StreamEnds(i)
  \/ \E i \in 1..MaxPlays : StreamCancelled(i)

PlaybackSpec == ConnectedInit /\ [][PlaybackNext]_vars

\* ------------------------------------ the socket of a connection, by await

\* task w is at `at`, about to write `frame`
At(w, at, frame) == [tasks EXCEPT ![w].pc = at, ![w].frame = frame]

\* the handshake has been written, or has failed
Handshaken == tasks[Loop].frame.op \notin {2, 6}

\* `write.lock().await` returns to w
WriteLock(w) ==
  /\ tasks[w].pc = "locking"
  /\ Acquires(write_guard)
  /\ write_guard' = Locked(w)
  /\ tasks' = At(w, "sending", tasks[w].frame)
  /\ put' = NoPut
  /\ UNCHANGED <<channel, seq_shared, ack_hb, overdue, gateway, voice, dispatcher, player>>

\* the send of w returns, and w drops the guard: run_session goes on to the read loop,
\* or returns if the handshake failed, and then the only gateway_tx is dropped and the
\* forwarder ends; the forwarder and a monitor end on a failed send
WriteDone(w) ==
  /\ tasks[w].pc = "sending"
  /\ \E ok \in BOOLEAN :
       LET next == AfterWrite(w, tasks[w].frame, ok) IN
       /\ put' = IF ok THEN Written(w, tasks[w].frame) ELSE NoPut
       /\ tasks' = [tasks EXCEPT
                      ![w] = [pc |-> next, frame |-> NoFrame,
                              unacked |-> (w \in Monitors /\ ok),
                              late |-> IF w \in Monitors /\ ok /\ tasks[Loop].pc = "ended"
                                         THEN Min(tasks[w].late + 1, 2)
                                         ELSE tasks[w].late],
                      ![Forwarder].pc = IF w = Loop /\ next = "ended" THEN "ended" ELSE @]
  /\ write_guard' = Nobody
  /\ UNCHANGED <<channel, seq_shared, ack_hb, overdue, gateway, voice, dispatcher, player>>

\* read loop: a frame carrying s that makes the loop write nothing (dispatch, unknown op)
WireSeq(s) ==
  /\ tasks[Loop].pc = "reading"
  /\ seq_shared' = SeqUpdate(seq_shared, s)
  /\ seq_shared' # seq_shared
  /\ put' = NoPut
  /\ UNCHANGED <<write_guard, tasks, channel, ack_hb, overdue, gateway, voice, dispatcher, player>>

\* read loop, op 10: the i-th heartbeat task is spawned
WireHello(i) ==
  /\ tasks[Loop].pc = "reading"
  /\ tasks[Monitor(i)].pc = "unborn"
  /\ \A j \in 1..(i - 1) : tasks[Monitor(j)].pc # "unborn"
  /\ tasks' = At(Monitor(i), "waiting", NoFrame)
  /\ put' = NoPut
  /\ UNCHANGED <<write_guard, channel, seq_shared, ack_hb, overdue, gateway, voice, dispatcher, player>>

\* read loop, op 11
WireHeartbeatAck ==
  /\ tasks[Loop].pc = "reading"
  /\ ack_hb' = TRUE
  /\ tasks' = [w \in Writers |-> [tasks[w] EXCEPT !.unacked = FALSE]]
  /\ overdue' = FALSE
  /\ put' = NoPut
  /\ UNCHANGED <<write_guard, channel, seq_shared, gateway, voice, dispatcher, player>>

\* read loop, transport ping: on to `write.lock().await.send(Pong)`
WirePing ==
  /\ tasks[Loop].pc = "reading"
  /\ tasks' = At(Loop, "locking", Pong)
  /\ put' = NoPut
  /\ UNCHANGED <<write_guard, channel, seq_shared, ack_hb, overdue, gateway, voice, dispatcher, player>>

\* read loop, op 1: the cursor takes the frame's s, is read back, and the loop goes on
\* to write the heartbeat
WireHeartbeatRequest(s) ==
  /\ tasks[Loop].pc = "reading"
  /\ seq_shared' = SeqUpdate(seq_shared, s)
  /\ tasks' = At(Loop, "locking", Heartbeat(seq_shared'))
  /\ put' = NoPut
  /\ UNCHANGED <<write_guard, channel, ack_hb, overdue, gateway, voice, dispatcher, player>>

\* read loop: a frame or an error on which run_session returns
WireEnd ==
  /\ tasks[Loop].pc = "reading"
  /\ tasks' = At(Loop, "ended", NoFrame)
  /\ put' = NoPut
  /\ UNCHANGED <<write_guard, channel, seq_shared, ack_hb, overdue, gateway, voice, dispatcher, player>>

\* heartbeat task i: the jitter sleep or the tick is over; zombie check, else
\* ack = false, the cursor is read, and the task goes on to `write_hb.lock().await`
WireTick(i) ==
  /\ tasks[Monitor(i)].pc = "waiting"
  /\ IF Zombie(ack_hb)
       THEN /\ tasks' = At(Monitor(i), "stopped", NoFrame)
            /\ overdue' = (overdue \/ tasks[Monitor(i)].unacked)
            /\ UNCHANGED ack_hb
       ELSE /\ tasks' = At(Monitor(i), "locking", Heartbeat(seq_shared))
            /\ ack_hb' = FALSE
            /\ UNCHANGED overdue
  /\ put' = NoPut
  /\ UNCHANGED <<write_guard, channel, seq_shared, gateway, voice, dispatcher, player>>

\* forwarder: gateway_rx.recv() gives the next frame
ForwardRecv ==
  /\ tasks[Forwarder].pc = "receiving"
  /\ channel # <<>>
  /\ channel' = Tail(channel)
  /\ tasks' = At(Forwarder, "locking", Head(channel))
  /\ put' = NoPut
  /\ UNCHANGED <<write_guard, seq_shared, ack_hb, overdue, gateway, voice, dispatcher, player>>

\* join_voice or leave_voice, called from a callback: gateway_tx.send(op 4) returns Ok
Signals ==
  /\ Handshaken
  /\ tasks[Forwarder].pc # "ended"
  /\ Len(channel) < MaxQueue
  /\ channel' = Append(channel, Signal)
  /\ put' = NoPut
  /\ UNCHANGED <<write_guard, tasks, seq_shared, ack_hb, overdue, gateway, voice, dispatcher, player>>

WireNext ==
  \/ \E w \in Writers : WriteLock(w)
  \/ \E w \in Writers : WriteDone(w)
  \/ \E s \in SeqValues : WireSeq(s)
  \/ \E i \in 1..MaxHellos : WireHello(i)
  \/ WireHeartbeatAck
  \/ WirePing
  \/ \E s \in MaybeSeq : WireHeartbeatRequest(s)
  \/ WireEnd
  \/ \E i \in 1..MaxHellos : WireTick(i)
  \/ ForwardRecv
  \/ Signals

WireSpec == Init /\ [][WireNext]_vars

\* a timer ticks, a send returns, and the write mutex (tokio's, first come first served)
\* is given to every task that waits for it
WireFairness ==
  /\ \A i \in 1..MaxHellos : WF_vars(WireTick(i))
  /\ \A w \in Writers : WF_vars(WriteDone(w)) /\ SF_vars(WriteLock(w))

WireFairSpec == WireSpec /\ WireFairness

TypeOK ==
  /\ pc \in {"connecting", "reading", "backoff", "jitter", "returned"}
  /\ result \in {"none", "ok", "err_ws", "err_json"}
  /\ session_id \in MaybeSid
  /\ resume_url \in MaybeUrl
  /\ last_seq \in MaybeSeq
  /\ backoff \in 1..BackoffCap
  /\ Running(monitors) + RunningIn(orphans) <= MaxMonitors

\* ------------------------------------------------------------------ claims

FatalClosed == ended_by = "close" /\ close_code \in FatalCloseCodes
ResumableEnd ==
  \/ ended_by = "close" /\ close_code \notin FatalCloseCodes
  \/ ended_by = "stream_end"
HandshakeWritten == wrote.op \in {2, 6}

\* C1, as stated: the handshake of an attempt is a resume if a session id is held when
\* the attempt begins, and an identify if none is held.
C1_HandshakeBySessionId ==
  HandshakeWritten => (IF session_id # NoStr THEN wrote.op = 6 ELSE wrote.op = 2)

\* C1, amended: the handshake of an attempt is a resume exactly if a session id and a
\* sequence cursor are both held when the attempt begins; otherwise it is an identify.
C1_HandshakeBySessionIdAndSeq ==
  HandshakeWritten =>
    /\ wrote.op = 6 <=> (session_id # NoStr /\ last_seq # NoSeq)
    /\ wrote.op = 2 <=> (session_id = NoStr \/ last_seq = NoSeq)

C1_Witness == wrote.op = 6 /\ session_id # NoStr /\ last_seq # NoSeq

\* C2: after a close frame with code 4004, 4010, 4011 or 4012 start() has returned; no
\* sleep and no further connection attempt follows it.
C2_FatalCloseReturns == FatalClosed => pc = "returned"

C2_Witness == FatalClosed /\ close_code = 4012 /\ pc = "returned"

\* C3: after a close frame with a non-fatal code or with no code, or after the end of
\* the inbound stream, start() has not returned: it sleeps the backoff, and the sleep
\* is followed by another connection attempt, however many attempts came before.
C3_ResumableCloseReconnects ==
  /\ [](ResumableEnd => pc \in {"backoff", "connecting"})
  /\ ((ResumableEnd /\ pc = "backoff") ~> (pc = "connecting"))

C3_Witness ==
  /\ ended_by = "close" /\ close_code = 1006
  /\ pc = "connecting" /\ backoff = BackoffCap

\* C4: once a heartbeat monitor has found its heartbeat unacknowledged at its next
\* tick, the read loop of that connection stops.
C4_ZombieTearsDown == (zombie /\ pc = "reading") ~> (pc # "reading")

\* C5: a failure to open the WebSocket, or a read error, does not make start() return.
C5_TransportErrorRetries ==
  ended_by \in {"connect_error", "read_error"} => pc # "returned"

\* C6: when a fatal close code has made start() return, the value returned is an error.
C6_FatalCloseReturnsError ==
  (FatalClosed /\ pc = "returned") => result \in {"err_ws", "err_json"}

\* C7: no connection attempt ends, and start() does not return, because of a text
\* frame that is not JSON.
C7_BadJsonDropped == ended_by # "bad_json"

\* C8: a resume frame carries the session id of the latest READY and the sequence
\* number of the latest frame that had one, both since the last fresh reset.
C8_ResumePayload ==
  wrote.op = 6 => (wrote.session_id = ready_sid /\ wrote.seq = seen_seq)

C8_Witness == wrote.op = 6 /\ wrote.session_id = "b" /\ wrote.seq = MaxSeq

\* C9: from one frame to the next on a connection the sequence cursor does not decrease.
C9_CursorNeverDecreases ==
  [][(pc = "reading" /\ pc' = "reading") => last_seq' >= last_seq]_vars

\* C10: while the sequence numbers read on a connection have been strictly increasing,
\* the cursor is the largest of them.
C10_CursorIsMax ==
  (pc = "reading" /\ conn_incr /\ conn_nseq > 0) => last_seq = conn_max

C10_Witness ==
  pc = "reading" /\ conn_incr /\ conn_nseq = 2 /\ last_seq = MaxSeq /\ conn_max = MaxSeq

\* join_voice has left its readiness loop with the state vs and calls connect on it
Opening(c) == calls[c].op = "join" /\ calls[c].pc = "opening"
FailedJoin ==
  returned.op = "join" /\ returned.result \in {"err_send", "err_timeout", "err_connect"}
TimedOut == returned.op = "join" /\ returned.result = "err_timeout"

\* C11: join_voice calls connect only with a token and an endpoint that are both
\* non-empty and that one voice-server fragment, sent for the requested guild, put
\* into the entry: never half an entry, a mix of two fragments or another guild's.
C11_OpensWithEntryOfGuild ==
  \A c \in Joiners :
    Opening(c) =>
      /\ calls[c].vs.token # EmptyToken
      /\ calls[c].vs.endpoint # NoEndpoint
      /\ calls[c].vs.endpoint.host = calls[c].vs.token
      /\ joins[calls[c].vs.token] = calls[c].guild_id

C11_Witness ==
  \E c \in Joiners :
    /\ Opening(c)
    /\ calls[c].vs.token = calls[c].attempt
    /\ \E g \in Guilds : g # calls[c].guild_id /\ Ready(voice_states[g])

\* C12, as stated: the readiness loop hands out a state only after a voice-state
\* fragment and a voice-server fragment were both recorded for the guild: the state
\* it returns has its session id, its token and its endpoint.
C12_ReadyAfterBothFragments ==
  \A c \in Joiners :
    Opening(c) =>
      /\ calls[c].vs.token # EmptyToken
      /\ calls[c].vs.endpoint # NoEndpoint
      /\ calls[c].vs.session_id # NoSession

\* C12, amended: the readiness loop hands out a state only after a voice-server
\* fragment the peer sent was recorded for the guild: the state it returns has a token
\* and an endpoint; its session id may be absent.
C12_ReadyAfterServerFragment ==
  \A c \in Joiners :
    Opening(c) =>
      /\ calls[c].vs.present
      /\ calls[c].vs.token \in sent
      /\ calls[c].vs.endpoint.host \in sent

C12_Witness ==
  \E c \in Joiners : Opening(c) /\ calls[c].vs.session_id = NoSession

\* C13: a join_voice call never goes on to connect with a token or a session id of a
\* fragment that answers an earlier, finished join_voice call for the same guild.
C13_NoFragmentOfEarlierAttempt ==
  \A c \in Joiners :
    Opening(c) =>
      /\ calls[c].vs.token \notin calls[c].prior
      /\ calls[c].vs.session_id \notin calls[c].prior

\* C14: when join_voice returns an error, the guild has no entry in voice_states and
\* none in live_rooms.
C14_FailedJoinRetainsNothing ==
  FailedJoin =>
    /\ ~voice_states[returned.guild_id].present
    /\ live_rooms[returned.guild_id] = NoRoom

\* C15: a join_voice call in its readiness loop leaves it: with a complete entry, or
\* with the timeout error; and a call that timed out has opened no room and recorded
\* none.
C15_WaitTimesOut ==
  /\ \A c \in Joiners : (calls[c].pc = "polling") ~> (Opening(c) \/ TimedOut)
  /\ [](TimedOut => /\ returned.attempt \notin open_rooms
                    /\ \A g \in Guilds : live_rooms[g] # returned.attempt)

C15_Witness ==
  /\ TimedOut
  /\ voice_states[returned.guild_id].present
  /\ voice_states[returned.guild_id].token = EmptyToken

\* C16, as stated: leave_voice for a guild that had no room and no entry when it was
\* called returns success.
C16_LeaveOfNothingSucceeds ==
  (returned.op = "leave" /\ ~returned.found) => returned.result = "ok"

\* C16, amended: a step of leave_voice taken while the guild has no room and no entry
\* leaves voice_states and live_rooms as they are, and the call returns success or,
\* if the outbound channel is closed, the send error.
C16_LeaveOfNothingKeepsMaps ==
  [][\A c \in Leavers :
       LET g == IF calls[c].pc = "idle" THEN calls'[c].guild_id ELSE calls[c].guild_id
       IN  (/\ calls'[c] # calls[c]
            /\ ~voice_states[g].present
            /\ live_rooms[g] = NoRoom)
           => /\ voice_states' = voice_states
              /\ live_rooms' = live_rooms
              /\ calls'[c].pc = "idle" => returned'.result \in {"ok", "err_send"}]_vars

C16_Witness ==
  /\ returned.op = "leave" /\ ~returned.found /\ returned.result = "ok"
  /\ ~voice_states[returned.guild_id].present
  /\ \E g \in Guilds : voice_states[g].present /\ live_rooms[g] # NoRoom

\* C18: no two open rooms are of the same guild.
C18_OneOpenRoomPerGuild ==
  \A k1 \in open_rooms, k2 \in open_rooms : joins[k1] = joins[k2] => k1 = k2

\* a frame of each kind can be read, and a heartbeat that is due can be written
LoopServes ==
  /\ ENABLED RecvHeartbeatAck(NoSeq)
  /\ ENABLED RecvReconnect(NoSeq)
  /\ ENABLED RecvClose(1000)
  /\ monitors.sending > 0 => ENABLED MonitorSend
\* a dispatch_event task ends on an event that does not decode
Drops == \E event \in pending : ~event.decodes /\ event \notin pending'

C19_DecodeFailureContained ==
  /\ [](\A event \in callbacks : event.decodes)
  /\ [][Drops => UNCHANGED <<engine, shared, history>>]_vars
  /\ []((dropped /\ ended_by = "none") => LoopServes)

C19_Witness ==
  /\ dropped
  /\ callbacks = {}
  /\ pc = "reading"
  /\ last_seq = MaxSeq
  /\ [t |-> "OTHER", decodes |-> TRUE] \in pending

\* C20: while a user callback has not returned, and for as long as the connection has
\* not ended, the read loop can read a frame of each kind and a monitor whose
\* heartbeat is due can write it.
C20_CallbackDoesNotStall ==
  (callbacks # {} /\ ended_by = "none") => LoopServes

C20_Witness ==
  /\ callbacks # {}
  /\ pc = "reading"
  /\ monitors.sending > 0
  /\ pending # {}
  /\ last_seq = MaxSeq

\* --------------------------------------------------------- C22, C26 .. C29

\* a step of start() from its sleep or from the handshake of a new attempt
Sleeping == pc \in {"backoff", "jitter"}
Connects == pc = "connecting" /\ pc' = "reading"
SessionKept == UNCHANGED <<session_id, resume_url, last_seq>>

\* C22: the heartbeat monitor and the read loop of a connection end together: once a
\* monitor of the connection being read has stopped on a missing ack the read loop
\* stops, and once the read loop has stopped the monitors it left behind stop.
C22_TerminateTogether ==
  /\ (zombie /\ pc = "reading") ~> (pc # "reading")
  /\ (orphans # <<>>) ~> (orphans = <<>>)

\* C26, as stated: after an invalid-session not marked resumable the next attempt begins
\* with no session id, no resume URL and no cursor and sends identify; after one marked
\* resumable the next attempt keeps all three and sends resume.
C26_InvalidSessionThenResume ==
  /\ [](ended_by = "op9_fresh" /\ (Sleeping \/ pc = "connecting")
          => session_id = NoStr /\ resume_url = NoStr /\ last_seq = NoSeq)
  /\ [][(Sleeping /\ ended_by \in {"op9_fresh", "op9_resumable"}) => SessionKept]_vars
  /\ [][(pc = "reading" /\ ended_by' = "op9_resumable")
          => session_id' = session_id /\ resume_url' = resume_url
             /\ last_seq' = seen_seq']_vars
  /\ [][(Connects /\ ended_by = "op9_fresh") => wrote'.op = 2]_vars
  /\ [][(Connects /\ ended_by = "op9_resumable") => wrote'.op = 6]_vars

\* C26, amended: as above, but after a resumable invalid-session the next attempt sends
\* resume, with the session id and the cursor kept, only if a session id and a cursor
\* are both held, and sends identify otherwise.
C26_InvalidSessionThenHandshake ==
  /\ [](ended_by = "op9_fresh" /\ (Sleeping \/ pc = "connecting")
          => session_id = NoStr /\ resume_url = NoStr /\ last_seq = NoSeq)
  /\ [][(Sleeping /\ ended_by \in {"op9_fresh", "op9_resumable"}) => SessionKept]_vars
  /\ [][(pc = "reading" /\ ended_by' = "op9_resumable")
          => session_id' = session_id /\ resume_url' = resume_url
             /\ last_seq' = seen_seq']_vars
  /\ [][(Connects /\ ended_by = "op9_fresh") => wrote'.op = 2]_vars
  /\ [][(Connects /\ ended_by = "op9_resumable")
          => IF session_id # NoStr /\ last_seq # NoSeq
               THEN wrote'.op = 6 /\ wrote'.session_id = session_id
                    /\ wrote'.seq = last_seq
               ELSE wrote'.op = 2]_vars

C26_Witness ==
  /\ ended_by = "op9_resumable" /\ pc = "connecting"
  /\ session_id # NoStr /\ resume_url # NoStr /\ last_seq # NoSeq

\* C27: of the outcomes after which start() makes another attempt, only an
\* invalid-session not marked resumable discards session id, resume URL and cursor; a
\* reconnect request, a resumable invalid-session, a non-fatal close and the end of the
\* stream hand them to the next attempt as run_session left them.
C27_OnlyFreshInvalidSessionDiscards ==
  /\ [][(pc = "reading" /\ Sleeping')
          => IF ended_by' = "op9_fresh"
               THEN session_id' = NoStr /\ resume_url' = NoStr /\ last_seq' = NoSeq
               ELSE /\ ended_by' \in {"op7", "op9_resumable", "close", "stream_end"}
                    /\ session_id' = session_id /\ resume_url' = resume_url
                    /\ last_seq' = seen_seq'
                    /\ ended_by' \in {"close", "stream_end"} => last_seq' = last_seq]_vars
  /\ [][Sleeping => SessionKept]_vars

C27_Witness ==
  /\ ended_by = "op7" /\ pc = "backoff"
  /\ session_id # NoStr /\ resume_url # NoStr /\ last_seq # NoSeq

\* C28: the delay of a resumable reconnect is 1, 2, 4, 8, 16, 32 or 60 seconds in every
\* state: it starts at 1, doubles, and is capped at 60.
C28_BackoffBoundedExponential == backoff \in {1, 2, 4, 8, 16, 32, 60}

C28_Witness == backoff = 60 /\ pc = "backoff"

\* C29: an attempt that holds a session id connects to the resume URL if one is held
\* and to the default gateway URL if not, and does not call the REST layer; an attempt
\* that holds none calls it and connects to the endpoint it gave, or to the default
\* gateway URL if the call failed.  Read in the state the handshake leaves, in which
\* session_id and resume_url are those the attempt began with.
C29_EndpointSelection ==
  HandshakeWritten =>
    IF session_id # NoStr
      THEN /\ rest_call = NotCalled
           /\ wrote.url = IF resume_url # NoStr THEN resume_url ELSE DEFAULT_GATEWAY_URL
      ELSE /\ rest_call # NotCalled
           /\ \/ rest_call = RestErr /\ wrote.url = DEFAULT_GATEWAY_URL
              \/ \E h \in UrlStems : /\ rest_call \in {h, h \o "/"}
                                     /\ wrote.url = h \o "/?v=1&encoding=json"

C29_Witness ==
  /\ wrote.op = 6 /\ rest_call = NotCalled
  /\ wrote.url = resume_url /\ resume_url \in ResumeUrls


\* ------------------------------------------------------------------- C25

\* C25: no call is suspended at an await while it holds the lock of the voice-state map
\* or of the media-session map.
C25_NoMapLockAcrossAwait == \A c \in Callers : Held(calls[c]) = {}

\* --------------------------------------------------- C21, C23, C24, C30

\* C21: no heartbeat frame is put on the socket while the ack of a heartbeat written a
\* full interval ago or more is still outstanding, be it a monitor's heartbeat or the
\* answer to a heartbeat request.
C21_NoHeartbeatWhileAckOverdue == put.frame.op = 1 => ~overdue

C24_OneSendAtATime ==
  \A w \in Writers : tasks[w].pc = "sending" =>
    /\ write_guard = w
    /\ \A v \in Writers \ {w} : tasks[v].pc # "sending"

C24_Witness ==
  \E w \in Monitors :
    /\ tasks[w].pc = "sending"
    /\ tasks[Loop].pc = "locking" /\ tasks[Forwarder].pc = "locking"

\* C30: a heartbeat frame carries the cursor as it is when the frame is put on the
\* socket: the s of the last frame carrying one that the read loop has processed.
C30_HeartbeatCarriesCursor == put.frame.op = 1 => put.frame.seq = seq_shared

\* ------------------------------------------------------------ C31, C37

\* the string starts with wss:// or with https://
StartsSecure(str) == \E p \in {"wss://", "https://"}, rest \in Prefixes : str = p \o rest

\* dispatch_event stores what the frame carries: the guard of VOICE_SERVER_UPDATE
Stored(fragment) ==
  fragment.guild_id # "" /\ fragment.token # EmptyToken /\ fragment.endpoint # NoEndpoint

\* the dispatch_event task of this frame runs in the step
Processed(fragment) == fragment \in pending /\ fragment \notin pending'

\* C31: every non-empty endpoint in the voice-state map starts with wss:// or https://;
\* an endpoint received with one of the two prefixes is stored as received, any other
\* with wss:// put before it.
C31_EndpointNormalized ==
  /\ [](\A g \in Guilds :
          voice_states[g].endpoint # NoEndpoint =>
            StartsSecure(voice_states[g].endpoint.scheme))
  /\ [][\A fragment \in ServerUpdates :
          Processed(fragment) /\ Stored(fragment) =>
            LET got == fragment.endpoint
                kept == voice_states'[fragment.guild_id].endpoint
            IN  /\ kept.host = got.host
                /\ kept.scheme = IF got.scheme \in {"wss://", "https://"}
                                   THEN got.scheme ELSE "wss://" \o got.scheme]_vars

C31_Witness ==
  /\ voice_states["g1"].endpoint.scheme = "wss://ws://"
  /\ \E i \in 1..Len(heard) : heard[i].endpoint.scheme = "https://"

\* the place in wire order of the last frame for guild g that dispatch_event stores
LastStored(g) ==
  LET at == {i \in 1..Len(heard) : heard[i].guild_id = g /\ Stored(heard[i])}
  IN  IF at = {} THEN 0 ELSE CHOOSE i \in at : \A j \in at : j <= i

\* C37: once every VOICE_SERVER_UPDATE frame read has been processed, the entry of a
\* guild holds the token and the endpoint of the frame for that guild read last.
C37_FragmentsInWireOrder ==
  pending = {} =>
    \A g \in Guilds :
      LastStored(g) # 0 =>
        /\ voice_states[g].token = heard[LastStored(g)].token
        /\ voice_states[g].endpoint.host = heard[LastStored(g)].endpoint.host
        /\ \E rest \in {"", "wss://"} :
             voice_states[g].endpoint.scheme = rest \o heard[LastStored(g)].endpoint.scheme

\* ------------------------------------------------------- C32, C33, C34

\* a heartbeat task that has been spawned and has not ended
Beating(w) == tasks[w].pc \in {"waiting", "locking", "sending"}

\* C32: the handshake frame is the first frame put on a connection's socket, no second
\* one is ever put, and run_session enters its read loop by the step that puts it.
C32_HandshakeFirstAndOnce ==
  /\ [][(~Handshaken /\ put'.frame # NoFrame) =>
          (put'.frame.op \in {2, 6} /\ put'.by = Loop)]_vars
  /\ [][Handshaken => put'.frame.op \notin {2, 6}]_vars
  /\ [][(tasks[Loop].pc # "reading" /\ ~Handshaken /\ tasks'[Loop].pc = "reading") =>
          put'.frame.op \in {2, 6}]_vars

C32_Witness == put.frame.op = 2 /\ put.by = Loop /\ tasks[Loop].pc = "reading"

\* C33: at most one heartbeat task of a connection is running.
C33_OneMonitorPerConnection == Cardinality({w \in Monitors : Beating(w)}) <= 1

\* C34: once run_session has returned, a heartbeat task of its connection writes at
\* most one more heartbeat, and every such task ends.
C34_MonitorsEndAfterSession ==
  /\ [](\A w \in Monitors : tasks[w].late <= 1)
  /\ (tasks[Loop].pc = "ended") ~> (\A w \in Monitors : ~Beating(w))

\* ------------------------------------------------------------------- C35

\* C35: the voice-state map and the media-session map are the same maps after a
\* reconnect: the step that opens the next connection leaves both as they were, so what
\* join_voice recorded before it is there for a leave_voice called after it.
C35_MapsSurviveReconnect == [][Connects => UNCHANGED <<voice_states, live_rooms>>]_vars

\* ------------------------------------------------------------ C36, C38

\* C36: when leave_voice for a guild returns, the media-session map holds no room of a
\* join_voice for that guild that was called before the leave_voice was.
C36_NoRoomAfterLeave ==
  [][\A c \in Leavers :
       (calls[c].op = "leave" /\ calls'[c].pc = "idle") =>
         live_rooms'[calls[c].guild_id] \notin calls[c].prior]_vars

\* C38: when leave_voice returns, with Ok or with the error of a send that failed, the
\* guild has no entry in the media-session map and none in the voice-state map.
C38_LeaveClearsBothMaps ==
  returned.op = "leave" =>
    /\ live_rooms[returned.guild_id] = NoRoom
    /\ ~voice_states[returned.guild_id].present

\* ------------------------------------------------------------------- C39

\* C39: after a connection that has read a dispatch, the sleep before the next attempt
\* that keeps the session is the initial delay of 1 second.
C39_BackoffResetBySteadySession ==
  (pc = "backoff" /\ steady) => backoff = InitialBackoff

====
